---- MODULE Spec2Model ----
(***************************************************************************)
(* Model of the `languoids` view of wals3 (src/wals3/views.py, 65-120):    *)
(* the direct lookup by "<prefix>-<id>" key and the cascading autocomplete *)
(* search over language names, alternative names, genera and families.    *)
(* One request is handled from "start" to "done"; every database query of  *)
(* the view is one step, and `calls` logs the queries that were issued.    *)
(***************************************************************************)
EXTENDS Integers, Sequences, FiniteSets

VARIABLES id, q, limit, db, pc, max_results, res, calls, result

vars == <<id, q, limit, db, pc, max_results, res, calls, result>>

(* ---------------- bounds of the model ---------------- *)
MaxLimit == 5
MaxKeyLen == 3
NLanguage == 4
NGenus == 2
NFamily == 2

(* the value line 79 gives max_results *)
DefaultLimit == 20

(* ---------------- inputs ---------------- *)
Chars == {"w", "g", "f", "q", "-", "x"}

RECURSIVE SeqsUpTo(_, _)
SeqsUpTo(S, n) ==
    IF n = 0 THEN {<<>>}
    ELSE LET P == SeqsUpTo(S, n - 1)
         IN  P \cup {Append(s, c) : s \in {p \in P : Len(p) = n - 1}, c \in S}

(* request.params['id']; <<>> stands for a missing or empty parameter *)
Keys == SeqsUpTo(Chars, MaxKeyLen)

(* request.params['q']; "" stands for a missing or empty parameter *)
Queries == {"", "xx"}

Limits == (0 .. MaxLimit) \cup {DefaultLimit}

(* the objects model.get can find: pairs <<model, id>> *)
DbStates ==
    { {},
      { <<"Language", <<"x">>>>, <<"Genus", <<"x">>>>, <<"Family", <<"-">>>> } }

None == [kind |-> "None"]

(* ---------------- direct lookup, lines 67-77 ---------------- *)

(* '-' in s *)
Contains(s, c) == \E i \in 1 .. Len(s) : s[i] = c

(* s.split(c, 1) for a string that contains c *)
Split(s, c) ==
    LET k == CHOOSE i \in 1 .. Len(s) :
                 s[i] = c /\ \A j \in 1 .. Len(s) : s[j] = c => i <= j
    IN  <<SubSeq(s, 1, k - 1), SubSeq(s, k + 1, Len(s))>>

(* dict(w=Language, g=Genus, f=Family).get(m) *)
ModelOf_swapped(m) ==
    IF m = <<"w">> THEN "Language"
    ELSE IF m = <<"g">> THEN "Family"
    ELSE IF m = <<"f">> THEN "Genus"
    ELSE "None"

ModelOf(m) ==
    IF m = <<"w">> THEN "Language"
    ELSE IF m = <<"g">> THEN "Genus"
    ELSE IF m = <<"f">> THEN "Family"
    ELSE "None"

(* model.get(id_, default=None) *)
ModelGet(d, model, id_) ==
    IF <<model, id_>> \in d THEN [kind |-> model, id |-> id_] ELSE None

HTTPNotFound == [shape |-> "NotFound"]

HTTPFound(obj) == [shape |-> "Redirect", location |-> obj]

(* the whole branch `if request.params.get('id')` *)
Lookup(key, d) ==
    IF ~Contains(key, "-") THEN HTTPNotFound
    ELSE LET m == Split(key, "-")[1]
             id_ == Split(key, "-")[2]
             model == ModelOf(m)
         IN  IF model = "None" THEN HTTPNotFound
             ELSE LET obj == ModelGet(d, model, id_)
                  IN  IF obj = None THEN HTTPNotFound ELSE HTTPFound(obj)

(* ---------------- the cascade, lines 79-120 ---------------- *)

(* entities of a kind, numbered in the order of the query's ORDER BY *)
Entity(kind, n) == [kind |-> kind, pk |-> n]

RECURSIVE Sorted(_, _)
Sorted(kind, S) ==
    IF S = {} THEN <<>>
    ELSE LET m == CHOOSE x \in S : \A y \in S : x <= y
         IN  <<Entity(kind, m)>> \o Sorted(kind, S \ {m})

(* what query.order_by(..).limit(cap) can yield: the matching rows in     *)
(* order, at most cap of them, no entity twice                            *)
Query(kind, n, cap) ==
    {Sorted(kind, S) : S \in {T \in SUBSET (1 .. n) : Cardinality(T) <= cap}}

(* if len(res) < max_results *)
HasRoom_le(r, mr) == Len(r) <= mr

HasRoom(r, mr) == Len(r) < mr

(* max_results = max_results - len(res) *)
Reduce_keep(mr, r) == mr

Reduce(mr, r) == mr - Len(r)

(* for l in query: if l not in res: res.append(l) *)
RECURSIVE Accept_all(_, _)
Accept_all(r, ret) ==
    IF ret = <<>> THEN r
    ELSE Accept_all(Append(r, Head(ret)), Tail(ret))

RECURSIVE Accept(_, _)
Accept(r, ret) ==
    IF ret = <<>> THEN r
    ELSE IF \E i \in 1 .. Len(r) : r[i] = Head(ret)
         THEN Accept(r, Tail(ret))
         ELSE Accept(Append(r, Head(ret)), Tail(ret))

(* for l in query: res.append(l) *)
Extend_front(r, ret) == ret \o r

RECURSIVE Extend(_, _)
Extend(r, ret) ==
    IF ret = <<>> THEN r
    ELSE Extend(Append(r, Head(ret)), Tail(ret))

(* ms.format_result *)
format_result(e) == [id |-> <<e.kind, e.pk>>, text |-> e]

(* list(map(ms.format_result, res)) *)
FormatAll(s) == [i \in 1 .. Len(s) |-> format_result(s[i])]

Call(stage, cap, r, ret) == [stage |-> stage, cap |-> cap, before |-> Len(r), ret |-> ret]

(* ---------------- the state machine ---------------- *)

Init ==
    /\ id \in Keys
    /\ q \in Queries
    /\ limit \in Limits
    /\ db \in DbStates
    /\ pc = "start"
    /\ max_results = 0
    /\ res = <<>>
    /\ calls = <<>>
    /\ result = [shape |-> "none"]

(* lines 67-77 *)
DirectLookup ==
    /\ pc = "start"
    /\ id # <<>>
    /\ result' = Lookup(id, db)
    /\ pc' = "done"
    /\ UNCHANGED <<id, q, limit, db, max_results, res, calls>>

(* lines 79-82 *)
EmptyQuery ==
    /\ pc = "start"
    /\ id = <<>>
    /\ q = ""
    /\ max_results' = limit
    /\ result' = [shape |-> "array", items |-> <<>>]
    /\ pc' = "done"
    /\ UNCHANGED <<id, q, limit, db, res, calls>>

(* lines 79-88 *)
StageA ==
    /\ pc = "start"
    /\ id = <<>>
    /\ q # ""
    /\ max_results' = limit
    /\ \E ret \in Query("Language", NLanguage, limit) :
          /\ calls' = Append(calls, Call("A", limit, res, ret))
          /\ res' = Extend(<<>>, ret)
    /\ pc' = "B"
    /\ UNCHANGED <<id, q, limit, db, result>>

(* lines 90-99 *)
StageB ==
    /\ pc = "B"
    /\ HasRoom(res, max_results)
    /\ max_results' = Reduce(max_results, res)
    /\ \E ret \in Query("Language", NLanguage, max_results') :
          /\ calls' = Append(calls, Call("B", max_results', res, ret))
          /\ res' = Accept(res, ret)
    /\ pc' = "C"
    /\ UNCHANGED <<id, q, limit, db, result>>

SkipB ==
    /\ pc = "B"
    /\ ~HasRoom(res, max_results)
    /\ pc' = "C"
    /\ UNCHANGED <<id, q, limit, db, max_results, res, calls, result>>

(* lines 101-108 *)
StageC ==
    /\ pc = "C"
    /\ HasRoom(res, max_results)
    /\ max_results' = Reduce(max_results, res)
    /\ \E ret \in Query("Genus", NGenus, max_results') :
          /\ calls' = Append(calls, Call("C", max_results', res, ret))
          /\ res' = Extend(res, ret)
    /\ pc' = "D"
    /\ UNCHANGED <<id, q, limit, db, result>>

SkipC ==
    /\ pc = "C"
    /\ ~HasRoom(res, max_results)
    /\ pc' = "D"
    /\ UNCHANGED <<id, q, limit, db, max_results, res, calls, result>>

(* lines 110-117 *)
StageD ==
    /\ pc = "D"
    /\ HasRoom(res, max_results)
    /\ max_results' = Reduce(max_results, res)
    /\ \E ret \in Query("Family", NFamily, max_results') :
          /\ calls' = Append(calls, Call("D", max_results', res, ret))
          /\ res' = Extend(res, ret)
    /\ pc' = "format"
    /\ UNCHANGED <<id, q, limit, db, result>>

SkipD ==
    /\ pc = "D"
    /\ ~HasRoom(res, max_results)
    /\ pc' = "format"
    /\ UNCHANGED <<id, q, limit, db, max_results, res, calls, result>>

(* lines 119-120 *)
Respond ==
    /\ pc = "format"
    /\ result' = [shape |-> "dict", results |-> FormatAll(res), more |-> FALSE]
    /\ pc' = "done"
    /\ UNCHANGED <<id, q, limit, db, max_results, res, calls>>

Next ==
    \/ DirectLookup
    \/ EmptyQuery
    \/ StageA
    \/ StageB
    \/ SkipB
    \/ StageC
    \/ SkipC
    \/ StageD
    \/ SkipD
    \/ Respond

Spec == Init /\ [][Next]_vars

TypeOK ==
    /\ id \in Keys
    /\ q \in Queries
    /\ limit \in Limits
    /\ db \in DbStates
    /\ pc \in {"start", "B", "C", "D", "format", "done"}
    /\ max_results \in Int
    /\ Len(calls) <= 4

(* ---------------- properties ---------------- *)

Range(s) == {s[i] : i \in 1 .. Len(s)}

Invoked(stage) == \E i \in 1 .. Len(calls) : calls[i].stage = stage

Distinct(s) == \A i, j \in 1 .. Len(s) : s[i] = s[j] => i = j

ListResult == pc = "done" /\ result.shape = "dict"

(* C1: a text search never returns more than `limit` results: the        *)
(* candidates accepted over stages A, B, C and D never exceed the limit. *)
C1_ResultWithinLimit ==
    /\ Len(res) <= limit
    /\ ListResult => Len(result.results) <= limit

C1_Witness ==
    /\ ListResult
    /\ limit > 1
    /\ Len(result.results) = limit
    /\ Len(calls) >= 3

(* C2: whenever a text search returns fewer than `limit` results, all    *)
(* four providers were invoked (the cascade stops only when the quota is *)
(* filled or the sources are exhausted).                                 *)
C2_CascadeUntilFilled ==
    (ListResult /\ Len(res) < limit) =>
        (Invoked("A") /\ Invoked("B") /\ Invoked("C") /\ Invoked("D"))

(* C3: the cap passed to stage B, C or D is exactly the limit minus the  *)
(* number of candidates accepted by all earlier stages.                  *)
C3_CapIsRemainingQuota ==
    \A i \in 1 .. Len(calls) :
        calls[i].stage \in {"B", "C", "D"} => calls[i].cap = limit - calls[i].before

(* C4: no stage is invoked with a cap greater than the limit minus the   *)
(* number of candidates already accepted into the result list.           *)
C4_CapWithinRemaining ==
    \A i \in 1 .. Len(calls) : calls[i].cap <= limit - calls[i].before

C4_Witness ==
    /\ Len(calls) = 4
    /\ calls[2].before > 0
    /\ calls[4].cap > 0

(* C5: with a direct-lookup key the result is a redirect to the entity   *)
(* iff the key is <prefix>-<id> with prefix w, g or f and an entity of   *)
(* that kind with that id exists, and NotFound otherwise; no provider is *)
(* invoked and no list is produced, whatever q is.                       *)
KindOfPrefix(c) ==
    CASE c = "w" -> "Language"
      [] c = "g" -> "Genus"
      [] c = "f" -> "Family"

KeyResolves ==
    /\ Len(id) >= 2
    /\ id[1] \in {"w", "g", "f"}
    /\ id[2] = "-"
    /\ <<KindOfPrefix(id[1]), SubSeq(id, 3, Len(id))>> \in db

C5_DirectLookupExclusive ==
    (pc = "done" /\ id # <<>>) =>
        /\ calls = <<>>
        /\ res = <<>>
        /\ IF KeyResolves
           THEN /\ result.shape = "Redirect"
                /\ result.location =
                       [kind |-> KindOfPrefix(id[1]), id |-> SubSeq(id, 3, Len(id))]
           ELSE result.shape = "NotFound"

C5_Witness ==
    /\ pc = "done"
    /\ id # <<>>
    /\ q # ""
    /\ result.shape = "Redirect"
    /\ result.location.kind = "Family"

(* C6: without a direct-lookup key and with an empty text query the      *)
(* result is the list-shaped {results: [], more: false} and no provider  *)
(* is invoked.                                                           *)
C6_EmptyQueryListShape ==
    (pc = "done" /\ id = <<>> /\ q = "") =>
        /\ calls = <<>>
        /\ result.shape = "dict"
        /\ result.results = <<>>
        /\ result.more = FALSE

(* C7: scenario 3: query "xx", limit 5, stage A returns 2, stage B       *)
(* returns 2 of which one is a stage-A entity; then stage C is invoked   *)
(* with cap 2, and when it returns 2, stage D is not invoked and the     *)
(* output is [A, A, B, C, C] without a repeated entity.                  *)
Scenario3 ==
    /\ pc = "done"
    /\ id = <<>>
    /\ q = "xx"
    /\ limit = 5
    /\ Len(calls) >= 2
    /\ Len(calls[1].ret) = 2
    /\ calls[2].stage = "B"
    /\ Len(calls[2].ret) = 2
    /\ Cardinality(Range(calls[2].ret) \cap Range(calls[1].ret)) = 1

C7_Scenario3 ==
    Scenario3 =>
        /\ Len(calls) >= 3
        /\ calls[3].stage = "C"
        /\ calls[3].cap = 2
        /\ Len(calls[3].ret) = 2 =>
              /\ ~Invoked("D")
              /\ result.shape = "dict"
              /\ Len(result.results) = 5
              /\ [i \in 1 .. 5 |-> result.results[i].text.kind] =
                     <<"Language", "Language", "Language", "Genus", "Genus">>
              /\ Distinct(result.results)

(* C8: no entity occurs twice among the items of stages A and B: a stage *)
(* B candidate already in the result list is dropped, and only the       *)
(* accepted ones add to the count of results.                            *)
C8_NoDuplicateAB ==
    /\ Distinct(res)
    /\ \A i \in 1 .. Len(calls) :
          calls[i].stage = "B" =>
              /\ Range(calls[i].ret) \subseteq Range(res)
              /\ Cardinality({k \in 1 .. Len(res) : res[k].kind = "Language"}) =
                     calls[i].before
                       + Cardinality(Range(calls[i].ret) \ Range(calls[1].ret))

C8_Witness ==
    /\ Len(calls) >= 2
    /\ calls[2].stage = "B"
    /\ Range(calls[2].ret) \cap Range(calls[1].ret) # {}
    /\ Range(calls[2].ret) \ Range(calls[1].ret) # {}

(* C9: stage B, C or D is called only while fewer than `limit` results   *)
(* are accepted; when stage A returns `limit` matches the other stages   *)
(* are never invoked and the output has exactly `limit` items, more =    *)
(* false.                                                                *)
C9_LowerStagesOnlyWithQuota ==
    /\ \A i \in 1 .. Len(calls) :
          calls[i].stage # "A" => calls[i].before < limit
    /\ (pc = "done" /\ calls # <<>> /\ Len(calls[1].ret) = limit) =>
          /\ Len(calls) = 1
          /\ result.shape = "dict"
          /\ Len(result.results) = limit
          /\ result.more = FALSE

C9_Witness ==
    /\ pc = "done"
    /\ calls # <<>>
    /\ limit >= 2
    /\ Len(calls[1].ret) = limit

(* C10: the output keeps cascade priority order and, within a stage, the *)
(* order in which the stage's provider returned the results.             *)
StageRank(stage) ==
    CASE stage = "A" -> 1
      [] stage = "B" -> 2
      [] stage = "C" -> 3
      [] stage = "D" -> 4

SegLo(i) == calls[i].before + 1

SegHi(i) == IF i < Len(calls) THEN calls[i + 1].before ELSE Len(res)

Pos(s, e) == CHOOSE p \in 1 .. Len(s) : s[p] = e

C10_PriorityOrder ==
    /\ calls # <<>> => calls[1].before = 0
    /\ \A i, j \in 1 .. Len(calls) :
          i < j => StageRank(calls[i].stage) < StageRank(calls[j].stage)
    /\ \A i \in 1 .. Len(calls) :
          /\ \A k \in SegLo(i) .. SegHi(i) : res[k] \in Range(calls[i].ret)
          /\ \A k, l \in SegLo(i) .. SegHi(i) :
                k < l => Pos(calls[i].ret, res[k]) < Pos(calls[i].ret, res[l])
    /\ ListResult =>
          /\ Len(result.results) = Len(res)
          /\ \A k \in 1 .. Len(res) : result.results[k].text = res[k]

C10_Witness ==
    /\ ListResult
    /\ Len(calls) = 4
    /\ calls[2].before >= 1
    /\ calls[3].before >= calls[2].before + 2
    /\ calls[4].before >= calls[3].before + 2
    /\ Len(res) >= calls[4].before + 2

====
